---- MODULE Spec2Model ----
(***************************************************************************)
(* Model of qc_robot_localisation:                                         *)
(*   - research_variations.py : the variation switcher that regenerates    *)
(*     conf.py from a fixed catalog (VARIATIONS);                          *)
(*   - conf.py                : the shipped configuration;                 *)
(*   - visualizations.py      : the reporting layer that maps measurement  *)
(*     keys to grid positions and aggregates counts.                       *)
(*                                                                         *)
(* A Python str is a sequence of one-character strings, a Python list a    *)
(* sequence, a dict a sequence of items in iteration (insertion) order.    *)
(* Floats are modelled as exact rationals (reduced fractions): rounding    *)
(* is abstracted.                                                          *)
(***************************************************************************)
EXTENDS Integers, Sequences, FiniteSets, TLC

(***************************************************************************)
(* Generic helpers on sequences                                            *)
(***************************************************************************)
\* Python None (a record, so that it compares with any content record)
None == [py |-> "None"]

RECURSIVE Concat(_)
\* "".join(parts): the concatenation of a sequence of sequences
Concat(parts) ==
    IF parts = <<>> THEN <<>> ELSE Head(parts) \o Concat(Tail(parts))

RECURSIVE JoinWith(_, _)
\* sep.join(parts)
JoinWith(sep, parts) ==
    IF parts = <<>> THEN <<>>
    ELSE IF Len(parts) = 1 THEN parts[1]
    ELSE parts[1] \o sep \o JoinWith(sep, Tail(parts))

\* s.replace(a, b) for one-character a and b
Replace(s, a, b) == [i \in 1..Len(s) |-> IF s[i] = a THEN b ELSE s[i]]

\* repr of a str without quote characters inside: the text in single quotes
PyRepr(str) == <<"'">> \o str \o <<"'">>

\* str(list_of_str): "['a', 'b']"
PyStrList(list) ==
    <<"[">> \o JoinWith(<<",", " ">>, [i \in 1..Len(list) |-> PyRepr(list[i])]) \o <<"]">>

\* the list of one-character Python strings with the given characters
Strs(chars) == [i \in 1..Len(chars) |-> <<chars[i]>>]

(***************************************************************************)
(* research_variations.py: the catalog                                     *)
(***************************************************************************)
\* one map row as the catalog writes it: a list holding the string "a b c d e f "
MapRow(a, b, c, d, e, f) == << <<a, " ", b, " ", c, " ", d, " ", e, " ", f, " ">> >>

SparseMap ==
    << MapRow("1","1","0","0","1","0"),
       MapRow("0","0","1","1","0","1"),
       MapRow("1","1","0","0","1","1"),
       MapRow("0","1","1","0","0","0"),
       MapRow("1","0","0","1","1","0"),
       MapRow("0","1","0","1","0","1") >>

\* VARIATIONS.keys() in insertion order
VariationNames ==
    << "sparse_6x6", "dense_6x6", "target_6x6", "checkerboard_6x6",
       "small_pattern_6x6", "medium_pattern_6x6", "asymmetric_6x6" >>

VARIATIONS ==
    [ sparse_6x6 |->
        [ pattern_row |-> Strs(<<"1","1","0","0">>),
          pattern_col |-> Strs(<<"1","1","0","0">>),
          map |-> SparseMap ],
      dense_6x6 |->
        [ pattern_row |-> Strs(<<"1","1","0","0">>),
          pattern_col |-> Strs(<<"1","1","0","0">>),
          map |-> [i \in 1..6 |-> MapRow("1","1","1","1","1","1")] ],
      target_6x6 |->
        [ pattern_row |-> Strs(<<"1","1","0","0">>),
          pattern_col |-> Strs(<<"1","1","0","0">>),
          map |-> << MapRow("0","0","0","0","0","0"),
                     MapRow("0","0","0","0","0","0"),
                     MapRow("0","0","1","1","0","0"),
                     MapRow("0","0","1","1","0","0"),
                     MapRow("0","0","0","0","0","0"),
                     MapRow("0","0","0","0","0","0") >> ],
      checkerboard_6x6 |->
        [ pattern_row |-> Strs(<<"1","0","1">>),
          pattern_col |-> Strs(<<"1","0","1">>),
          map |-> << MapRow("1","0","1","0","1","0"),
                     MapRow("0","1","0","1","0","1"),
                     MapRow("1","0","1","0","1","0"),
                     MapRow("0","1","0","1","0","1"),
                     MapRow("1","0","1","0","1","0"),
                     MapRow("0","1","0","1","0","1") >> ],
      small_pattern_6x6 |->
        [ pattern_row |-> Strs(<<"1","1">>),
          pattern_col |-> Strs(<<"1","1">>),
          map |-> SparseMap ],
      medium_pattern_6x6 |->
        [ pattern_row |-> Strs(<<"1","1","0">>),
          pattern_col |-> Strs(<<"1","1","0">>),
          map |-> SparseMap ],
      asymmetric_6x6 |->
        [ pattern_row |-> Strs(<<"1","0","1">>),
          pattern_col |-> Strs(<<"1","1","0">>),
          map |-> SparseMap ] ]

\* `variation_name in VARIATIONS`
InVariations(name) == name \in DOMAIN VARIATIONS

(***************************************************************************)
(* research_variations.py: generate_conf_file                              *)
(* The generated text is the fixed template with four holes; the content   *)
(* is the record of the texts put in the holes.                            *)
(***************************************************************************)
\* pattern_row_str = str(var["pattern_row"]).replace("'", '"')
FormatPattern(pattern) == Replace(PyStrList(pattern), "'", "\"")

\* map_lines.append(f'    {str(row)},') for each row; "\n".join(map_lines):
\* the joined text is kept as the sequence of its lines
FormatMap(map) ==
    [i \in 1..Len(map) |->
        <<" ", " ", " ", " ">> \o PyStrList(map[i]) \o <<",">>]

\* swaps the two pattern holes of the template
generate_conf_file_swapped(variation_name) ==
    IF ~InVariations(variation_name) THEN None
    ELSE LET var == VARIATIONS[variation_name] IN
         [ variation       |-> variation_name,
           pattern_row_str |-> FormatPattern(var.pattern_col),
           pattern_col_str |-> FormatPattern(var.pattern_row),
           map_str         |-> FormatMap(var.map) ]

\* the returned conf_content, or None for an unknown name
generate_conf_file(variation_name) ==
    IF ~InVariations(variation_name) THEN None
    ELSE LET var == VARIATIONS[variation_name] IN
         [ variation       |-> variation_name,
           pattern_row_str |-> FormatPattern(var.pattern_row),
           pattern_col_str |-> FormatPattern(var.pattern_col),
           map_str         |-> FormatMap(var.map) ]

\* what generate_conf_file prints: nothing for a known name, the error and
\* the ', '.join(VARIATIONS.keys()) line for an unknown one
generate_conf_file_output(variation_name) ==
    IF ~InVariations(variation_name)
    THEN << [line |-> "Error: Unknown variation", name |-> variation_name],
            [line |-> "Available variations", names |-> VariationNames] >>
    ELSE <<>>

(***************************************************************************)
(* conf.py: the shipped configuration, as the same four texts              *)
(***************************************************************************)
ShippedConf ==
    [ variation       |-> "",
      pattern_row_str |-> <<"[", "\"", "1", "\"", ",", " ", "\"", "0", "\"", "]">>,
      pattern_col_str |-> <<"[", "\"", "0", "\"", ",", " ", "\"", "1", "\"", "]">>,
      map_str         |->
          << <<" "," "," "," ","[","\"","0"," ","1"," ","0"," ","1"," ","\"","]"," ",",">>,
             <<" "," "," "," ","[","\"","0"," ","1"," ","1"," ","1"," ","\"","]"," ",",">>,
             <<" "," "," "," ","[","\"","1"," ","1"," ","0"," ","0"," ","\"","]"," ",",">>,
             <<" "," "," "," ","[","\"","0"," ","1"," ","1"," ","0"," ","\"","]"," ",",">> >> ]

(***************************************************************************)
(* Reading a configuration back (what `import conf` evaluates)             *)
(***************************************************************************)
IsQuote(c) == c = "'" \/ c = "\""

RECURSIVE ScanLists(_, _, _, _, _, _)
\* Evaluates the text of a sequence of list-of-str literals: the lists in
\* order, each the strings between matching quotes.
\*   mode "out": outside a list, "in": inside a list, else the open quote
ScanLists(s, i, mode, cur, items, lists) ==
    IF i > Len(s) THEN lists
    ELSE LET c == s[i] IN
      IF mode = "out"
      THEN IF c = "[" THEN ScanLists(s, i + 1, "in", <<>>, <<>>, lists)
           ELSE ScanLists(s, i + 1, "out", cur, items, lists)
      ELSE IF mode = "in"
      THEN IF c = "]" THEN ScanLists(s, i + 1, "out", <<>>, <<>>, Append(lists, items))
           ELSE IF IsQuote(c) THEN ScanLists(s, i + 1, c, <<>>, items, lists)
           ELSE ScanLists(s, i + 1, "in", cur, items, lists)
      ELSE IF c = mode THEN ScanLists(s, i + 1, "in", <<>>, Append(items, cur), lists)
           ELSE ScanLists(s, i + 1, mode, Append(cur, c), items, lists)

\* the lists written on one line
EvalLists(text) == ScanLists(text, 1, "out", <<>>, <<>>, <<>>)

\* the lists written on a sequence of lines (no list spans two lines)
EvalLines(lines) == Concat([i \in 1..Len(lines) |-> EvalLists(lines[i])])

\* the flag hard-wired to True
ReuseRowColQubitsAlways(row, col) == TRUE

\* "REUSE_ROW_COL_QUBITS": inp_pattern_row==inp_pattern_col
ReuseRowColQubits(row, col) == row = col

\* the module namespace after evaluating a configuration text
LoadConf(content) ==
    LET row == EvalLists(content.pattern_row_str)[1]
        col == EvalLists(content.pattern_col_str)[1]
    IN [ inp_pattern_row |-> row,
         inp_pattern_col |-> col,
         inp_map_string  |-> EvalLines(content.map_str),
         REUSE_ROW_COL_QUBITS |-> ReuseRowColQubits(row, col) ]

RECURSIVE SplitSpaces(_, _, _, _)
SplitSpaces(s, i, cur, toks) ==
    IF i > Len(s) THEN (IF cur = <<>> THEN toks ELSE Append(toks, cur))
    ELSE IF s[i] = " "
         THEN SplitSpaces(s, i + 1, <<>>, IF cur = <<>> THEN toks ELSE Append(toks, cur))
         ELSE SplitSpaces(s, i + 1, Append(cur, s[i]), toks)

\* the blank-separated tokens of one map row (a list holding one string)
RowTokens(row) == SplitSpaces(Concat(row), 1, <<>>, <<>>)

\* the tokens of a whole map, row by row
MapTokens(map) == [i \in 1..Len(map) |-> RowTokens(map[i])]

(***************************************************************************)
(* visualizations.py: helpers                                              *)
(***************************************************************************)
\* a raised exception ends the function that raised it
Raise(exc) == [raised |-> exc]

Min2(a, b) == IF a <= b THEN a ELSE b

\* key[::-1]
Reverse(s) == [i \in 1..Len(s) |-> s[Len(s) + 1 - i]]

Digit(c) == IF c = "1" THEN 1 ELSE 0

RECURSIVE IntBase2(_)
\* int(s, 2) for a string of binary digits: most significant digit first
IntBase2(s) ==
    IF s = <<>> THEN 0
    ELSE 2 * IntBase2(SubSeq(s, 1, Len(s) - 1)) + Digit(s[Len(s)])

\* pos_idx = int(key, 2): the key read without reversing it
PosIdxNoReverse(key) == IntBase2(key)

\* the index with its lowest bit dropped: two keys of one length share it
PosIdxHalved(key) == IntBase2(Reverse(key)) \div 2

\* pos_idx = int(key[::-1], 2)
PosIdx(key) == IntBase2(Reverse(key))

\* if pos_idx < len(positions):
Mapped(key, positions) == PosIdx(key) < Len(positions)

\* pos = positions[pos_idx]
PosOf(key, positions) == positions[PosIdx(key) + 1]

RECURSIVE SumValues(_)
\* sum(counts.values())
SumValues(counts) ==
    IF counts = <<>> THEN 0 ELSE Head(counts).value + SumValues(Tail(counts))

RECURSIVE GCD(_, _)
GCD(a, b) == IF b = 0 THEN a ELSE GCD(b, a % b)

\* the quotient n / d (d > 0) as a reduced fraction
Frac(n, d) == LET g == GCD(n, d) IN [num |-> n \div g, den |-> d \div g]

FracAdd(a, b) == Frac(a.num * b.den + b.num * a.den, a.den * b.den)

FracGeq(a, b) == a.num * b.den >= b.num * a.den

\* (value / total_shots) * 100, total_shots # 0
Percent(value, total_shots) == Frac(value * 100, total_shots)

\* (value / total_shots) * 100 if total_shots > 0 else 0
GuardedPercent(value, total_shots) ==
    IF total_shots > 0 THEN Percent(value, total_shots) ELSE Frac(0, 1)

FracMul(a, b) == Frac(a.num * b.num, a.den * b.den)

RECURSIVE FracPow(_, _)
FracPow(a, n) == IF n = 0 THEN Frac(1, 1) ELSE FracMul(a, FracPow(a, n - 1))

LCM(a, b) == (a * b) \div GCD(a, b)

(***************************************************************************)
(* Logarithms kept exact: the record [arg, div] stands for the real number *)
(* log2(arg) / div, with arg a positive fraction and div a positive        *)
(* integer. Sums and rational multiples of such numbers have this form.    *)
(***************************************************************************)
\* math.log2(q) for a positive fraction q
Log2(q) == [arg |-> q, div |-> 1]

\* the number 0, as log2(1)
LogZero == Log2(Frac(1, 1))

\* p * x for a fraction p >= 0: (n/d) * log2(a)/m = log2(a^n) / (m*d)
LogTimes(p, x) ==
    IF p.num = 0 THEN LogZero
    ELSE [arg |-> FracPow(x.arg, p.num), div |-> x.div * p.den]

\* x + y over the common divisor
LogAdd(x, y) ==
    LET l == LCM(x.div, y.div)
    IN IF x.arg = Frac(1, 1) THEN y
       ELSE IF y.arg = Frac(1, 1) THEN x
       ELSE [arg |-> FracMul(FracPow(x.arg, l \div x.div), FracPow(y.arg, l \div y.div)),
             div |-> l]

\* -x
LogNeg(x) == [arg |-> Frac(x.arg.den, x.arg.num), div |-> x.div]

\* x = 0, x > 0, x = y
LogIsZero(x) == x.arg.num = x.arg.den

LogPositive(x) == x.arg.num > x.arg.den

LogEq(x, y) == FracPow(x.arg, y.div) = FracPow(y.arg, x.div)

RECURSIVE LogSum(_)
\* sum([...]) of a list of such numbers
LogSum(terms) ==
    IF terms = <<>> THEN LogZero ELSE LogAdd(Head(terms), LogSum(Tail(terms)))

\* every term taken as 0
EntropyTermDropped(p) == LogZero

\* p * math.log2(p) if p > 0 else 0
EntropyTerm(p) == IF p.num > 0 THEN LogTimes(p, Log2(p)) ELSE LogZero

\* entropy = -sum([p * math.log2(p) if p > 0 else 0 for p in probabilities])
Entropy(counts, total_shots) ==
    LogNeg(LogSum([i \in 1..Len(counts) |->
                      EntropyTerm(Frac(counts[i].value, total_shots))]))

\* max_entropy = math.log2(total_shots): the shots instead of the unique keys
MaxEntropyOfShots(counts) == Log2(Frac(SumValues(counts), 1))

\* max_entropy = math.log2(len(counts)), len(counts) > 0
MaxEntropy(counts) == Log2(Frac(Len(counts), 1))

\* a percentage 100 * num / den of two such numbers (den > 0)
LogPercent(num, den) == [num |-> num, den |-> den]

\* (entropy / max_entropy) * 100 if max_entropy > 0 else 0
NormalizedEntropy(entropy, max_entropy) ==
    IF LogPositive(max_entropy) THEN LogPercent(entropy, max_entropy)
    ELSE LogPercent(LogZero, Log2(Frac(2, 1)))

\* 100 - normalized_entropy
Certainty(normalized_entropy) == [hundred_minus |-> normalized_entropy]

RECURSIVE InsertDescBeforeTies(_, _)
\* places the item before the items of equal count: ties come out reversed
InsertDescBeforeTies(sorted, item) ==
    IF sorted = <<>> THEN <<item>>
    ELSE IF Head(sorted).value > item.value
         THEN <<Head(sorted)>> \o InsertDescBeforeTies(Tail(sorted), item)
         ELSE <<item>> \o sorted

RECURSIVE InsertDesc(_, _)
\* the place of the next item in a stable descending sort: after every item
\* whose count is at least its own
InsertDesc(sorted, item) ==
    IF sorted = <<>> THEN <<item>>
    ELSE IF Head(sorted).value >= item.value
         THEN <<Head(sorted)>> \o InsertDesc(Tail(sorted), item)
         ELSE <<item>> \o sorted

RECURSIVE SortedDesc(_)
\* sorted(counts.items(), key=lambda x: x[1], reverse=True)
SortedDesc(items) ==
    IF items = <<>> THEN <<>>
    ELSE InsertDesc(SortedDesc(SubSeq(items, 1, Len(items) - 1)), items[Len(items)])

\* sorted(...)[:k]
TopK(items, k) == SubSeq(SortedDesc(items), 1, Min2(k, Len(items)))

RECURSIVE InsertProbDesc(_, _)
InsertProbDesc(sorted, item) ==
    IF sorted = <<>> THEN <<item>>
    ELSE IF FracGeq(Head(sorted).prob, item.prob)
         THEN <<Head(sorted)>> \o InsertProbDesc(Tail(sorted), item)
         ELSE <<item>> \o sorted

RECURSIVE SortedProbsDesc(_)
\* sorted(probabilities.items(), key=lambda x: x[1], reverse=True)
SortedProbsDesc(items) ==
    IF items = <<>> THEN <<>>
    ELSE InsertProbDesc(SortedProbsDesc(SubSeq(items, 1, Len(items) - 1)),
                        items[Len(items)])

RECURSIVE SumProbs(_)
SumProbs(items) ==
    IF items = <<>> THEN Frac(0, 1) ELSE FracAdd(Head(items).prob, SumProbs(Tail(items)))

\* the slice sizes the reporting code uses
TopN == 5
Top3 == 3
DisplayLimit == 15

\* total_shots = len(counts): the number of keys instead of the shots
TotalShotsByLen(counts) == Len(counts)

\* total_shots = sum(counts.values())
TotalShots(counts) == SumValues(counts)

\* probabilities = {k: v/total_shots for k, v in counts.items()}, total_shots # 0
Probabilities(counts, total_shots) ==
    [i \in 1..Len(counts) |->
        [key |-> counts[i].key, prob |-> Frac(counts[i].value, total_shots)]]

RECURSIVE ScanSelectedSwapped(_, _, _, _)
\* the scan with the row compared to the column and the column to the row
ScanSelectedSwapped(counts, positions, row, col) ==
    IF counts = <<>> THEN 0
    ELSE LET key == Head(counts).key IN
         IF /\ Mapped(key, positions)
            /\ PosOf(key, positions).row = col
            /\ PosOf(key, positions).col = row
         THEN Head(counts).value
         ELSE ScanSelectedSwapped(Tail(counts), positions, row, col)

RECURSIVE ScanSelected(_, _, _, _)
\* for key, value in counts.items(): ... selected_count = value; break
ScanSelected(counts, positions, row, col) ==
    IF counts = <<>> THEN 0
    ELSE LET key == Head(counts).key IN
         IF /\ Mapped(key, positions)
            /\ PosOf(key, positions).row = row
            /\ PosOf(key, positions).col = col
         THEN Head(counts).value
         ELSE ScanSelected(Tail(counts), positions, row, col)

(***************************************************************************)
(* visualizations.py: the panels of the figure                             *)
(* Each function is modelled by its result: the exception it raises, or    *)
(* what it hands to the plotting library.                                  *)
(***************************************************************************)
\* the label f"({pos['row']},{pos['col']})"
PosLabel(pos) == [kind |-> "pos", row |-> pos.row, col |-> pos.col]

\* the raw key used as a label
KeyLabel(key) == [kind |-> "key", key |-> key]

OthersLabel == [kind |-> "Others"]

\* the keys of the items that resolve to a position, in order
MappedItems(items, positions) ==
    SelectSeq(items, LAMBDA it : Mapped(it.key, positions))

create_enhanced_histogram(counts, positions, total_shots, top_5) ==
    LET sorted_counts == SortedDesc(counts)
        display_limit == Min2(DisplayLimit, Len(sorted_counts))
        bars == MappedItems(SubSeq(sorted_counts, 1, display_limit), positions)
    IN IF bars # <<>> /\ total_shots = 0 THEN Raise("ZeroDivisionError")
       ELSE IF top_5 = <<>> THEN Raise("IndexError")
       ELSE IF total_shots = 0 THEN Raise("ZeroDivisionError")
       ELSE [ raised          |-> "",
              position_labels |-> [i \in 1..Len(bars) |-> PosLabel(PosOf(bars[i].key, positions))],
              count_values    |-> [i \in 1..Len(bars) |-> bars[i].value],
              bar_probs       |-> [i \in 1..Len(bars) |-> Percent(bars[i].value, total_shots)],
              top_count       |-> top_5[1].value,
              top_prob        |-> Percent(top_5[1].value, total_shots),
              top3_count      |-> SumValues(SubSeq(top_5, 1, Min2(Top3, Len(top_5)))),
              unique          |-> Len(counts) ]

\* the label loop of the pie chart with the else branch dropped
PieLabelsSkipping(top_5_probs, positions) ==
    LET mapped == MappedItems(top_5_probs, positions)
    IN [i \in 1..Len(mapped) |-> PosLabel(PosOf(mapped[i].key, positions))]

\* for key in top_5_probs.keys(): the position label, or the key itself
PieLabels(top_5_probs, positions) ==
    [i \in 1..Len(top_5_probs) |->
        IF Mapped(top_5_probs[i].key, positions)
        THEN PosLabel(PosOf(top_5_probs[i].key, positions))
        ELSE KeyLabel(top_5_probs[i].key)]

\* the item top_5_probs['Others'] = other_prob adds to a dict
OthersItem(other_prob) == [key |-> <<"O", "t", "h", "e", "r", "s">>, prob |-> other_prob]

\* top_5_probs bound to the argument itself: the added item lands in it
ArgumentAfterOthersShared(probabilities, others, other_prob) ==
    IF others THEN Append(probabilities, OthersItem(other_prob)) ELSE probabilities

\* the argument after the call: top_5_probs = dict(sorted_probs[:5]) is a new
\* dict, the added item lands there and the argument keeps its items
ArgumentAfterOthers(probabilities, others, other_prob) == probabilities

create_probability_distribution(probabilities, positions) ==
    LET sorted_probs == SortedProbsDesc(probabilities)
        top_5_probs  == SubSeq(sorted_probs, 1, Min2(TopN, Len(sorted_probs)))
        other_prob   == SumProbs(SubSeq(sorted_probs, TopN + 1, Len(sorted_probs)))
        others       == other_prob.num > 0
    IN [ raised |-> "",
         probabilities_after |-> ArgumentAfterOthers(probabilities, others, other_prob),
         labels |-> PieLabels(top_5_probs, positions)
                    \o (IF others THEN <<OthersLabel>> ELSE <<>>),
         values |-> [i \in 1..Len(top_5_probs) |-> top_5_probs[i].prob]
                    \o (IF others THEN <<other_prob>> ELSE <<>>) ]

\* qc is an external object: its numbers are not modelled
create_circuit_statistics == [raised |-> ""]

MaxOf(S) == CHOOSE x \in S : \A y \in S : y <= x

RECURSIVE FillGrid(_, _, _)
\* grid[pos['row'], pos['col']] = value for every key that resolves
FillGrid(counts, positions, grid) ==
    IF counts = <<>> THEN grid
    ELSE LET key == Head(counts).key IN
         FillGrid(Tail(counts), positions,
                  IF Mapped(key, positions)
                  THEN LET pos == PosOf(key, positions)
                       IN [grid EXCEPT ![<<pos.row, pos.col>>] = Head(counts).value]
                  ELSE grid)

\* if selected_row >= 0 and selected_col >= 0:
IsSelected(row, col) == row >= 0 /\ col >= 0

create_search_space_analysis(positions, counts, selected_row, selected_col) ==
    IF positions = <<>> THEN Raise("ValueError")
    ELSE
    LET max_row == MaxOf({positions[i].row : i \in 1..Len(positions)})
        max_col == MaxOf({positions[i].col : i \in 1..Len(positions)})
        total_shots == SumValues(counts)
        grid == FillGrid(counts, positions,
                         [c \in (0..max_row) \X (0..max_col) |-> 0])
    IN IF MappedItems(counts, positions) # <<>> /\ total_shots = 0
       THEN Raise("ZeroDivisionError")
       ELSE [ raised    |-> "",
              grid      |-> grid,
              texts     |-> {c \in DOMAIN grid : grid[c] > 0},
              highlight |-> IsSelected(selected_row, selected_col) ]

create_performance_metrics(counts, positions, total_shots) ==
    IF counts = <<>> THEN Raise("ValueError")
    ELSE IF total_shots = 0 THEN Raise("ZeroDivisionError")
    ELSE LET top_result_count == MaxOf({counts[i].value : i \in 1..Len(counts)})
             entropy == Entropy(counts, total_shots)
             max_entropy == MaxEntropy(counts)
             normalized_entropy == NormalizedEntropy(entropy, max_entropy)
         IN [ raised             |-> "",
              top_result_prob    |-> Percent(top_result_count, total_shots),
              entropy            |-> entropy,
              normalized_entropy |-> normalized_entropy,
              certainty          |-> Certainty(normalized_entropy) ]

\* the statistics text of a reporter that shows none
NoStats == [shown |-> FALSE]

Stats(count, total, prob) ==
    [shown |-> TRUE, count |-> count, total |-> total, prob |-> prob]

\* the selected-position block of the map panel
MapPanelSelectedStats(counts, positions, selected_row, selected_col) ==
    LET selected_count == ScanSelected(counts, positions, selected_row, selected_col)
        total_shots == SumValues(counts)
    IN Stats(selected_count, total_shots, GuardedPercent(selected_count, total_shots))

\* s.replace(" ", "").replace("X", "1")
CleanChars(s) == Replace(SelectSeq(s, LAMBDA c : c # " "), "X", "1")

\* map_clean of a map given as a list of lists of strings (the format of
\* conf.py): every string of every item joined, then cleaned
MapClean(inp_map_string) ==
    CleanChars(Concat([i \in 1..Len(inp_map_string) |-> Concat(inp_map_string[i])]))

\* len(map_clean) // (GRID_WIDTH * BYTE_SIZE), for positive width and byte size
GridHeight(map_clean, GRID_WIDTH, BYTE_SIZE) ==
    Len(map_clean) \div (GRID_WIDTH * BYTE_SIZE)

\* map_clean[idx:idx+BYTE_SIZE] with idx = i * GRID_WIDTH * BYTE_SIZE + j * BYTE_SIZE
\* (a Python slice stops at the end of the text)
CellSlice(map_clean, GRID_WIDTH, BYTE_SIZE, i, j) ==
    LET idx == i * GRID_WIDTH * BYTE_SIZE + j * BYTE_SIZE
    IN SubSeq(map_clean, idx + 1, Min2(idx + BYTE_SIZE, Len(map_clean)))

\* the cells the map panel draws: row by row, the slice of each cell and the
\* number int(slice, 2) written into it
PanelCells(map_clean, GRID_WIDTH, BYTE_SIZE) ==
    [i \in 1..GridHeight(map_clean, GRID_WIDTH, BYTE_SIZE) |->
        [j \in 1..GRID_WIDTH |->
            LET val == CellSlice(map_clean, GRID_WIDTH, BYTE_SIZE, i - 1, j - 1)
            IN [slice |-> val, value |-> IntBase2(val)]]]

\* GRID_WIDTH and BYTE_SIZE are positive and the map holds only "0", "1",
\* "X" and blanks, so neither the division nor int(val, 2) raises
create_enhanced_map_visualization(inp_map_string, GRID_WIDTH, BYTE_SIZE, selected_row, selected_col, positions, counts) ==
    [ raised    |-> "",
      GRID_HEIGHT |-> GridHeight(MapClean(inp_map_string), GRID_WIDTH, BYTE_SIZE),
      cells     |-> PanelCells(MapClean(inp_map_string), GRID_WIDTH, BYTE_SIZE),
      highlight |-> IsSelected(selected_row, selected_col),
      stats     |-> IF IsSelected(selected_row, selected_col)
                    THEN MapPanelSelectedStats(counts, positions, selected_row, selected_col)
                    ELSE NoStats ]

NotRun == [run |-> FALSE]

\* the six panels in call order; the first exception ends the function
create_comprehensive_visualization(counts, positions, selected_row, selected_col, inp_map_string, GRID_WIDTH, BYTE_SIZE) ==
    LET total_shots == TotalShots(counts)
        none == [ histogram |-> NotRun, pie |-> NotRun, circuit |-> NotRun,
                  heatmap |-> NotRun, metrics |-> NotRun, map |-> NotRun ]
    IN IF counts # <<>> /\ total_shots = 0
       THEN [called |-> TRUE, raised |-> "ZeroDivisionError", total_shots |-> total_shots,
             probabilities |-> NotRun, top_5 |-> NotRun, panels |-> none]
       ELSE
       LET probabilities == Probabilities(counts, total_shots)
           top_5 == TopK(counts, TopN)
           p1 == create_enhanced_histogram(counts, positions, total_shots, top_5)
           p2 == create_probability_distribution(probabilities, positions)
           p3 == create_circuit_statistics
           p4 == create_search_space_analysis(positions, counts, selected_row, selected_col)
           p5 == create_performance_metrics(counts, positions, total_shots)
           p6 == create_enhanced_map_visualization(inp_map_string, GRID_WIDTH, BYTE_SIZE,
                                                   selected_row, selected_col, positions, counts)
           Out(exc, panels) == [called |-> TRUE, raised |-> exc, total_shots |-> total_shots,
                                probabilities |-> [run |-> TRUE, items |-> probabilities],
                                top_5 |-> [run |-> TRUE, items |-> top_5],
                                panels |-> panels]
       IN IF p1.raised # "" THEN Out(p1.raised, [none EXCEPT !.histogram = p1])
          ELSE IF p4.raised # ""
               THEN Out(p4.raised, [none EXCEPT !.histogram = p1, !.pie = p2, !.circuit = p3,
                                                !.heatmap = p4])
          ELSE IF p5.raised # ""
               THEN Out(p5.raised, [none EXCEPT !.histogram = p1, !.pie = p2, !.circuit = p3,
                                                !.heatmap = p4, !.metrics = p5])
          ELSE Out("", [ histogram |-> p1, pie |-> p2, circuit |-> p3,
                         heatmap |-> p4, metrics |-> p5, map |-> p6 ])

(***************************************************************************)
(* visualizations.py: show_enhanced_map                                    *)
(***************************************************************************)
RECURSIVE ConsoleScan(_, _, _, _, _)
\* the loop of show_enhanced_map: count and probability are set at the match
ConsoleScan(counts, positions, row, col, total_shots) ==
    IF counts = <<>> THEN Stats(0, total_shots, Frac(0, 1))
    ELSE LET key == Head(counts).key IN
         IF /\ Mapped(key, positions)
            /\ PosOf(key, positions).row = row
            /\ PosOf(key, positions).col = col
         THEN Stats(Head(counts).value, total_shots,
                    GuardedPercent(Head(counts).value, total_shots))
         ELSE ConsoleScan(Tail(counts), positions, row, col, total_shots)

\* textwrap.wrap(s, width) for a text without blanks: pieces of width
\* characters, the last one shorter when the length is no multiple
Wrap(s, width) ==
    [i \in 1..((Len(s) + width - 1) \div width) |->
        SubSeq(s, (i - 1) * width + 1, Min2(i * width, Len(s)))]

\* the rows printed: for each_map_line in wrap(map_clean, GRID_WIDTH * BYTE_SIZE),
\* until row_idx >= GRID_HEIGHT; the items of a row are wrap(line, BYTE_SIZE)
ConsoleRows(map_clean, GRID_WIDTH, BYTE_SIZE) ==
    LET lines == Wrap(map_clean, GRID_WIDTH * BYTE_SIZE)
        GRID_HEIGHT == GridHeight(map_clean, GRID_WIDTH, BYTE_SIZE)
    IN [i \in 1..Min2(GRID_HEIGHT, Len(lines)) |-> Wrap(lines[i], BYTE_SIZE)]

\* the row and column are always passed here, so `is not None` holds
show_enhanced_map(inp_map_string, GRID_WIDTH, BYTE_SIZE, selected_row, selected_column, positions, counts) ==
    [ called |-> TRUE,
      raised |-> "",
      rows   |-> ConsoleRows(MapClean(inp_map_string), GRID_WIDTH, BYTE_SIZE),
      highlighted_columns |-> {index \in 0..(GRID_WIDTH - 1) : index = selected_column},
      highlighted_cells |->
          LET rows == ConsoleRows(MapClean(inp_map_string), GRID_WIDTH, BYTE_SIZE)
          IN {c \in (0..(Len(rows) - 1)) \X (0..(GRID_WIDTH * BYTE_SIZE - 1)) :
                /\ c[2] < Len(rows[c[1] + 1])
                /\ (c[1] = selected_row \/ c[2] = selected_column)},
      stats  |-> IF positions # <<>> /\ counts # <<>>
                 THEN ConsoleScan(counts, positions, selected_row, selected_column,
                                  SumValues(counts))
                 ELSE NoStats ]

(***************************************************************************)
(* visualizations.py: generate_summary_report                              *)
(***************************************************************************)
\* the selected-position block of the report
ReportSelectedStats(counts, positions, selected_row, selected_col, total_shots) ==
    LET selected_count == ScanSelected(counts, positions, selected_row, selected_col)
    IN Stats(selected_count, total_shots, GuardedPercent(selected_count, total_shots))

generate_summary_report(counts, positions, selected_row, selected_col, total_shots) ==
    IF counts = <<>> THEN [called |-> TRUE, raised |-> "IndexError"]
    ELSE
    LET sorted_results == SortedDesc(counts)
        top_result == sorted_results[1]
        top5 == SubSeq(sorted_results, 1, Min2(TopN, Len(sorted_results)))
        top3 == SubSeq(sorted_results, 1, Min2(Top3, Len(sorted_results)))
        ranks == {i \in 1..Len(top5) : Mapped(top5[i].key, positions)}
    IN IF total_shots = 0 THEN [called |-> TRUE, raised |-> "ZeroDivisionError"]
       ELSE [ called |-> TRUE,
              raised |-> "",
              top_result |->
                IF Mapped(top_result.key, positions)
                THEN [ shown |-> TRUE,
                       pos |-> PosLabel(PosOf(top_result.key, positions)),
                       count |-> top_result.value,
                       prob |-> Percent(top_result.value, total_shots),
                       key |-> top_result.key ]
                ELSE NoStats,
              top_5 |-> { [ rank |-> i,
                            pos |-> PosLabel(PosOf(top5[i].key, positions)),
                            count |-> top5[i].value,
                            prob |-> Percent(top5[i].value, total_shots) ] : i \in ranks },
              top_prob |-> Percent(top_result.value, total_shots),
              top3_prob |-> Percent(SumValues(top3), total_shots),
              unique |-> Len(counts),
              entropy |-> Entropy(counts, total_shots),
              normalized_entropy |->
                NormalizedEntropy(Entropy(counts, total_shots), MaxEntropy(counts)),
              selected |->
                IF IsSelected(selected_row, selected_col)
                THEN ReportSelectedStats(counts, positions, selected_row, selected_col,
                                         total_shots)
                ELSE NoStats ]

(***************************************************************************)
(* State                                                                   *)
(***************************************************************************)
VARIABLES
    file,          \* conf.py on disk: the sequence of texts written since the last truncation
    pc,            \* position of the switcher process ("idle": no process running)
    argv,          \* sys.argv of the current (or last) switcher process
    conf_content,  \* the local of __main__
    out,           \* lines printed by the current (or last) switcher process
    exit_status,   \* exit status of the last switcher process, -1 while running / before any
    opened,        \* the current (or last) process opened conf.py for writing
    fileAtStart,   \* history: conf.py when the current (or last) process started
    lastOk,        \* history: the last recognized name a process was started with, "" if none
    stage,         \* "collect": the execution collaborator is filling counts; "report": handed over
    counts,        \* the counts mapping: items [key, value] in iteration order
    positions,     \* the positions sequence: records [row, col]
    selected_row,  \* the selected position, negative when not set
    selected_col,
    fig,           \* result of create_comprehensive_visualization, once called
    console,       \* result of show_enhanced_map, once called
    report,        \* result of generate_summary_report, once called
    key,           \* one measurement key being resolved
    resolved,      \* what the key resolved to, once resolved
    k,             \* a slice size
    topk,          \* sorted(counts.items(), ...)[:k], once computed
    inp_map_string,   \* the map of the configuration: a list of lists of strings
    inp_pattern_row,  \* the patterns of the configuration
    inp_pattern_col,
    GRID_WIDTH,    \* cells per row of the map
    BYTE_SIZE,     \* characters per cell
    map_panel      \* result of create_enhanced_map_visualization called on its own

switcherVars ==
    <<file, pc, argv, conf_content, out, exit_status, opened, fileAtStart, lastOk>>

inputVars == <<stage, counts, positions, selected_row, selected_col>>

reportVars == <<inputVars, fig, console, report>>

pureVars == <<key, resolved, k, topk>>

confVars == <<inp_map_string, inp_pattern_row, inp_pattern_col, GRID_WIDTH, BYTE_SIZE>>

gridVars == <<confVars, map_panel>>

vars == <<switcherVars, reportVars, pureVars, gridVars>>

NotCalled == [called |-> FALSE]

\* the reporting layer at rest: no measurement yet, nothing rendered
ReportIdle ==
    /\ stage = "collect"
    /\ counts = <<>>
    /\ positions = <<>>
    /\ selected_row = -1
    /\ selected_col = -1
    /\ fig = NotCalled
    /\ console = NotCalled
    /\ report = NotCalled

\* the configuration as shipped: the cells per row are the tokens of its
\* first row, the characters per cell those of its first token
GridIdle ==
    LET conf == LoadConf(ShippedConf) IN
    /\ inp_map_string = conf.inp_map_string
    /\ inp_pattern_row = conf.inp_pattern_row
    /\ inp_pattern_col = conf.inp_pattern_col
    /\ GRID_WIDTH = Len(RowTokens(conf.inp_map_string[1]))
    /\ BYTE_SIZE = Len(RowTokens(conf.inp_map_string[1])[1])
    /\ map_panel = NotCalled

\* no key being resolved, no slice computed
PureIdle ==
    /\ key = <<"0">>
    /\ resolved = NotCalled
    /\ k = TopN
    /\ topk = NotCalled

(***************************************************************************)
(* research_variations.py: __main__                                        *)
(***************************************************************************)
\* names that are not in the catalog
UnknownNames == {"foo", ""}

\* the command lines tried: no argument, or one name
ArgChoices ==
    {<<>>} \cup {<<n>> : n \in DOMAIN VARIATIONS \cup UnknownNames}

\* `if conf_content:` with every value passing
TruthyAlways(x) == TRUE

\* `if conf_content:` (a generated text is never empty)
Truthy(x) == x # None

\* open("conf.py", "a") keeps the old text
OpenA(old) == old

\* open("conf.py", "w") truncates the file
OpenW(old) == <<>>

SwitcherInit ==
    /\ file = <<ShippedConf>>
    /\ pc = "idle"
    /\ argv = <<>>
    /\ conf_content = None
    /\ out = <<>>
    /\ exit_status = -1
    /\ opened = FALSE
    /\ fileAtStart = <<ShippedConf>>
    /\ lastOk = ""

\* the shell starts `python research_variations.py <args>`
Start ==
    /\ pc = "idle"
    /\ \E args \in ArgChoices :
          /\ argv' = <<"research_variations.py">> \o args
          /\ lastOk' = IF args # <<>> /\ InVariations(args[1]) THEN args[1] ELSE lastOk
    /\ pc' = "main"
    /\ conf_content' = None
    /\ out' = <<>>
    /\ exit_status' = -1
    /\ opened' = FALSE
    /\ fileAtStart' = file
    /\ UNCHANGED file
    /\ UNCHANGED <<reportVars, pureVars, gridVars>>

\* the usage path ending the process with status 0
UsageExitsZero ==
    /\ pc = "main"
    /\ Len(argv) < 2
    /\ out' = << [line |-> "__doc__"], [line |-> "Available variations:"] >>
              \o [i \in 1..Len(VariationNames) |->
                    [line |-> "variation", name |-> VariationNames[i],
                     pattern |-> VARIATIONS[VariationNames[i]].pattern_row]]
    /\ exit_status' = 0
    /\ pc' = "idle"
    /\ UNCHANGED <<file, argv, conf_content, opened, fileAtStart, lastOk>>
    /\ UNCHANGED <<reportVars, pureVars, gridVars>>

\* len(sys.argv) < 2: print usage and catalog, sys.exit(1)
Usage ==
    /\ pc = "main"
    /\ Len(argv) < 2
    /\ out' = << [line |-> "__doc__"], [line |-> "Available variations:"] >>
              \o [i \in 1..Len(VariationNames) |->
                    [line |-> "variation", name |-> VariationNames[i],
                     pattern |-> VARIATIONS[VariationNames[i]].pattern_row]]
    /\ exit_status' = 1
    /\ pc' = "idle"
    /\ UNCHANGED <<file, argv, conf_content, opened, fileAtStart, lastOk>>
    /\ UNCHANGED <<reportVars, pureVars, gridVars>>

\* conf_content = generate_conf_file(sys.argv[1])
CallGenerate ==
    /\ pc = "main"
    /\ Len(argv) >= 2
    /\ conf_content' = generate_conf_file(argv[2])
    /\ out' = out \o generate_conf_file_output(argv[2])
    /\ pc' = "generated"
    /\ UNCHANGED <<file, argv, exit_status, opened, fileAtStart, lastOk>>
    /\ UNCHANGED <<reportVars, pureVars, gridVars>>

\* `if conf_content:` is false: the script falls off its end
NoWrite ==
    /\ pc = "generated"
    /\ ~Truthy(conf_content)
    /\ exit_status' = 0
    /\ pc' = "idle"
    /\ UNCHANGED <<file, argv, conf_content, out, opened, fileAtStart, lastOk>>
    /\ UNCHANGED <<reportVars, pureVars, gridVars>>

\* with open("conf.py", "w") as f:
OpenConf ==
    /\ pc = "generated"
    /\ Truthy(conf_content)
    /\ file' = OpenW(file)
    /\ opened' = TRUE
    /\ pc' = "opened"
    /\ UNCHANGED <<argv, conf_content, out, exit_status, fileAtStart, lastOk>>
    /\ UNCHANGED <<reportVars, pureVars, gridVars>>

\* f.write(conf_content); writing None raises TypeError and ends the process
WriteConf ==
    /\ pc = "opened"
    /\ IF conf_content = None
       THEN /\ exit_status' = 1
            /\ pc' = "idle"
            /\ UNCHANGED file
       ELSE /\ file' = Append(file, conf_content)
            /\ pc' = "written"
            /\ UNCHANGED exit_status
    /\ UNCHANGED <<argv, conf_content, out, opened, fileAtStart, lastOk>>
    /\ UNCHANGED <<reportVars, pureVars, gridVars>>

\* the confirmation prints, then the script ends
Confirm ==
    /\ pc = "written"
    /\ out' = out \o
         << [line |-> "Successfully updated conf.py with variation", name |-> argv[2]],
            [line |-> "Pattern row", pattern |-> VARIATIONS[argv[2]].pattern_row],
            [line |-> "Pattern col", pattern |-> VARIATIONS[argv[2]].pattern_col],
            [line |-> "Map size: 6x6"],
            [line |-> "You can now run: python main.py"] >>
    /\ exit_status' = 0
    /\ pc' = "idle"
    /\ UNCHANGED <<file, argv, conf_content, opened, fileAtStart, lastOk>>
    /\ UNCHANGED <<reportVars, pureVars, gridVars>>

SwitcherNext ==
    \/ Start
    \/ Usage
    \/ CallGenerate
    \/ NoWrite
    \/ OpenConf
    \/ WriteConf
    \/ Confirm

\* the switcher runs while the reporting layer rests
SwitcherStart == SwitcherInit /\ ReportIdle /\ PureIdle /\ GridIdle

SwitcherSpec == SwitcherStart /\ [][SwitcherNext]_vars

(***************************************************************************)
(* The reporting layer: inputs handed over by the execution collaborator   *)
(***************************************************************************)
MaxKeys == 2

\* shot counts of one key in the reporting runs
ShotValues == {0, 1, 2}

Bits == {"0", "1"}

\* measurement keys of the reporting runs: the two-bit strings
Keys == [1..2 -> Bits]

\* every coordinate of an h x w grid in row-major order
RowMajor(h, w) ==
    [i \in 1..(h * w) |-> [row |-> (i - 1) \div w, col |-> (i - 1) % w]]

GridShapes == {<<1, 1>>, <<1, 2>>, <<2, 1>>, <<2, 2>>}

PositionsChoices == { RowMajor(g[1], g[2]) : g \in GridShapes }

\* -1 is the "not set" sentinel
SelectedChoices == {-1, 0, 1}

ReportInit ==
    /\ stage = "collect"
    /\ counts = <<>>
    /\ positions \in PositionsChoices
    /\ selected_row \in SelectedChoices
    /\ selected_col \in SelectedChoices
    /\ fig = NotCalled
    /\ console = NotCalled
    /\ report = NotCalled

\* the keys already in the mapping
KeysOf(c) == {c[i].key : i \in 1..Len(c)}

\* the collaborator records one more key with its shot count: a dict of at
\* most MaxKeys items, no key twice, in any insertion order
AddCount ==
    /\ stage = "collect"
    /\ Len(counts) < MaxKeys
    /\ \E key_ \in Keys \ KeysOf(counts), value \in ShotValues :
          counts' = Append(counts, [key |-> key_, value |-> value])
    /\ UNCHANGED <<stage, positions, selected_row, selected_col, fig, console, report>>
    /\ UNCHANGED <<switcherVars, pureVars, gridVars>>

\* the collaborator hands counts over: they are read-only from here on
HandOver ==
    /\ stage = "collect"
    /\ stage' = "report"
    /\ UNCHANGED <<counts, positions, selected_row, selected_col, fig, console, report>>
    /\ UNCHANGED <<switcherVars, pureVars, gridVars>>

CallComprehensive ==
    /\ stage = "report"
    /\ ~fig.called
    /\ fig' = create_comprehensive_visualization(counts, positions, selected_row, selected_col,
                                                 inp_map_string, GRID_WIDTH, BYTE_SIZE)
    /\ UNCHANGED <<inputVars, console, report>>
    /\ UNCHANGED <<switcherVars, pureVars, gridVars>>

CallShowMap ==
    /\ stage = "report"
    /\ ~console.called
    /\ console' = show_enhanced_map(inp_map_string, GRID_WIDTH, BYTE_SIZE,
                                    selected_row, selected_col, positions, counts)
    /\ UNCHANGED <<inputVars, fig, report>>
    /\ UNCHANGED <<switcherVars, pureVars, gridVars>>

\* the caller passes total_shots = sum(counts.values())
CallReport ==
    /\ stage = "report"
    /\ ~report.called
    /\ report' = generate_summary_report(counts, positions, selected_row, selected_col,
                                         TotalShots(counts))
    /\ UNCHANGED <<inputVars, fig, console>>
    /\ UNCHANGED <<switcherVars, pureVars, gridVars>>

ReportNext ==
    \/ AddCount
    \/ HandOver
    \/ CallComprehensive
    \/ CallShowMap
    \/ CallReport

\* the reporting layer runs over the shipped configuration
ReportStart == SwitcherInit /\ ReportInit /\ PureIdle /\ GridIdle

ReportSpec == ReportStart /\ [][ReportNext]_vars

(***************************************************************************)
(* Key resolution on its own: keys of several lengths                      *)
(***************************************************************************)
MaxKeyLen == 3

KeyChoices == UNION { [1..n -> Bits] : n \in 1..MaxKeyLen }

ResolveInit ==
    /\ key \in KeyChoices
    /\ positions \in PositionsChoices
    /\ resolved = NotCalled
    /\ stage = "collect"
    /\ counts = <<>>
    /\ selected_row = -1
    /\ selected_col = -1
    /\ fig = NotCalled
    /\ console = NotCalled
    /\ report = NotCalled
    /\ k = TopN
    /\ topk = NotCalled

\* pos_idx = int(key[::-1], 2); if pos_idx < len(positions): pos = positions[pos_idx]
ResolveKey ==
    /\ ~resolved.called
    /\ resolved' = IF Mapped(key, positions)
                   THEN [called |-> TRUE, found |-> TRUE, pos_idx |-> PosIdx(key),
                         pos |-> PosOf(key, positions)]
                   ELSE [called |-> TRUE, found |-> FALSE, pos_idx |-> PosIdx(key)]
    /\ UNCHANGED <<key, k, topk>>
    /\ UNCHANGED <<switcherVars, reportVars, gridVars>>

ResolveNext == ResolveKey

ResolveStart == SwitcherInit /\ ResolveInit /\ GridIdle

ResolveSpec == ResolveStart /\ [][ResolveNext]_vars

(***************************************************************************)
(* The descending sort and its slices on their own: longer mappings        *)
(***************************************************************************)
MaxItems == 6
MaxCount == 2

\* the i-th key of a mapping: distinct keys of one length
OneHot(i) == [j \in 1..(MaxItems + 1) |-> IF j = i THEN "1" ELSE "0"]

TopKInit ==
    /\ stage = "collect"
    /\ counts = <<>>
    /\ k \in {Top3, TopN, DisplayLimit}
    /\ topk = NotCalled
    /\ key = <<"0">>
    /\ resolved = NotCalled
    /\ positions = <<>>
    /\ selected_row = -1
    /\ selected_col = -1
    /\ fig = NotCalled
    /\ console = NotCalled
    /\ report = NotCalled

\* the collaborator records the next key with its shot count
AddNextCount ==
    /\ stage = "collect"
    /\ Len(counts) < MaxItems
    /\ \E value \in 0..MaxCount :
          counts' = Append(counts, [key |-> OneHot(Len(counts) + 1), value |-> value])
    /\ UNCHANGED <<stage, positions, selected_row, selected_col, fig, console, report>>
    /\ UNCHANGED <<switcherVars, pureVars, gridVars>>

\* sorted(counts.items(), key=lambda x: x[1], reverse=True)[:k]
ApplyTopK ==
    /\ stage = "report"
    /\ ~topk.called
    /\ topk' = [called |-> TRUE, items |-> TopK(counts, k)]
    /\ UNCHANGED <<key, resolved, k>>
    /\ UNCHANGED <<switcherVars, reportVars, gridVars>>

TopKNext ==
    \/ AddNextCount
    \/ HandOver
    \/ ApplyTopK

TopKStart == SwitcherInit /\ TopKInit /\ GridIdle

TopKSpec == TopKStart /\ [][TopKNext]_vars

(***************************************************************************)
(* Drawing a map: the map panel and the console map over maps of any       *)
(* length                                                                  *)
(***************************************************************************)
MaxMapLen == 4

\* the characters of a map text
MapChars == {"0", "1", "X", " "}

\* cells per row and characters per cell tried
GridWidths == {1, 2}

ByteSizes == {1, 2}

\* the number of characters of a map
MapLen(m) == Len(Concat([i \in 1..Len(m) |-> Concat(m[i])]))

GridInit ==
    /\ inp_map_string = <<>>
    /\ inp_pattern_row = LoadConf(ShippedConf).inp_pattern_row
    /\ inp_pattern_col = LoadConf(ShippedConf).inp_pattern_col
    /\ GRID_WIDTH \in GridWidths
    /\ BYTE_SIZE \in ByteSizes
    /\ map_panel = NotCalled

\* the configuration gets one more row: a list holding one string
NewMapRow ==
    /\ stage = "collect"
    /\ MapLen(inp_map_string) < MaxMapLen
    /\ IF inp_map_string = <<>> THEN TRUE
       ELSE inp_map_string[Len(inp_map_string)] # << <<>> >>
    /\ inp_map_string' = Append(inp_map_string, << <<>> >>)
    /\ UNCHANGED <<inp_pattern_row, inp_pattern_col, GRID_WIDTH, BYTE_SIZE, map_panel>>
    /\ UNCHANGED <<switcherVars, reportVars, pureVars>>

\* the string of the last row gets one more character
AddMapChar ==
    /\ stage = "collect"
    /\ inp_map_string # <<>>
    /\ MapLen(inp_map_string) < MaxMapLen
    /\ \E c \in MapChars :
          inp_map_string' =
              [inp_map_string EXCEPT ![Len(inp_map_string)] = <<Append(@[1], c)>>]
    /\ UNCHANGED <<inp_pattern_row, inp_pattern_col, GRID_WIDTH, BYTE_SIZE, map_panel>>
    /\ UNCHANGED <<switcherVars, reportVars, pureVars>>

CallMapPanel ==
    /\ stage = "report"
    /\ ~map_panel.called
    /\ map_panel' =
          [ called |-> TRUE,
            panel  |-> create_enhanced_map_visualization(
                           inp_map_string, GRID_WIDTH, BYTE_SIZE,
                           selected_row, selected_col, positions, counts) ]
    /\ UNCHANGED confVars
    /\ UNCHANGED <<switcherVars, reportVars, pureVars>>

GridNext ==
    \/ NewMapRow
    \/ AddMapChar
    \/ HandOver
    \/ CallMapPanel
    \/ CallShowMap

GridStart == SwitcherInit /\ ReportIdle /\ PureIdle /\ GridInit

GridSpec == GridStart /\ [][GridNext]_vars

(***************************************************************************)
(* The reporters over mappings of more than five keys                      *)
(***************************************************************************)
ManyInit ==
    /\ stage = "collect"
    /\ counts = <<>>
    /\ positions = RowMajor(2, 2)
    /\ selected_row = 0
    /\ selected_col = 1
    /\ fig = NotCalled
    /\ console = NotCalled
    /\ report = NotCalled

\* shot counts of one key where many keys are recorded
FewShots == {0, 1}

\* the collaborator records the next key with its shot count
AddNextShots ==
    /\ stage = "collect"
    /\ Len(counts) < MaxItems
    /\ \E value \in FewShots :
          counts' = Append(counts, [key |-> OneHot(Len(counts) + 1), value |-> value])
    /\ UNCHANGED <<stage, positions, selected_row, selected_col, fig, console, report>>
    /\ UNCHANGED <<switcherVars, pureVars, gridVars>>

ManyNext ==
    \/ AddNextShots
    \/ HandOver
    \/ CallComprehensive
    \/ CallShowMap
    \/ CallReport
    \/ CallMapPanel

ManyStart == SwitcherInit /\ ManyInit /\ PureIdle /\ GridIdle

ManySpec == ManyStart /\ [][ManyNext]_vars

(***************************************************************************)
(* Claims about the variation switcher (checked under SwitcherSpec)        *)
(***************************************************************************)
\* a process was given a name, and the name is not in the catalog
GivenUnknownName == Len(argv) >= 2 /\ ~InVariations(argv[2])

\* a process was given a name of the catalog
GivenKnownName == Len(argv) >= 2 /\ InVariations(argv[2])

\* the last process has ended
Ended == pc = "idle" /\ exit_status # -1

\* the seven names of the catalog, as the documentation lists them
SevenNames ==
    { "sparse_6x6", "dense_6x6", "target_6x6", "checkerboard_6x6",
      "small_pattern_6x6", "medium_pattern_6x6", "asymmetric_6x6" }

\* the output holds a line that lists exactly the seven catalog names
ListsSevenNames ==
    \E i \in 1..Len(out) :
        /\ out[i].line = "Available variations"
        /\ Len(out[i].names) = 7
        /\ {out[i].names[j] : j \in 1..7} = SevenNames

\* C1: a process given a name that is not in the catalog never opens conf.py
\* for writing and leaves its content as it was when the process started;
\* once generate_conf_file has returned, the output lists the 7 catalog names.
C1_UnknownNameLeavesConf ==
    GivenUnknownName =>
        /\ ~opened
        /\ file = fileAtStart
        /\ (pc \in {"generated", "idle"} => ListsSevenNames)

\* C1 witness: "foo" was given after an earlier switch, the process has
\* ended, and conf.py still holds the earlier variation.
C1_Witness ==
    /\ Ended
    /\ Len(argv) >= 2
    /\ argv[2] = "foo"
    /\ lastOk = "target_6x6"
    /\ file = <<generate_conf_file("target_6x6")>>
    /\ ListsSevenNames

\* C2 (as stated): a process given an unknown name ends with a non-zero exit
\* status after listing the names; a process given a known name ends with
\* status 0 and the confirmation message.
C2_UnknownNameExitsNonZero ==
    (Ended /\ Len(argv) >= 2) =>
        IF InVariations(argv[2])
        THEN /\ exit_status = 0
             /\ \E i \in 1..Len(out) :
                   out[i].line = "Successfully updated conf.py with variation"
        ELSE /\ exit_status # 0
             /\ ListsSevenNames

\* C3: whenever no switcher process is running, conf.py holds exactly the
\* text generated for the last recognized name given, or the shipped text if
\* there was none: nothing of an earlier configuration remains.
C3_ConfIsLastRecognized ==
    pc = "idle" =>
        file = IF lastOk = "" THEN <<ShippedConf>> ELSE <<generate_conf_file(lastOk)>>

\* C3 witness: variation B (asymmetric_6x6) was applied to a conf.py that
\* held variation A (sparse_6x6); the process has ended and the file holds
\* exactly the text generated for B.
C3_Witness ==
    /\ Ended
    /\ lastOk = "asymmetric_6x6"
    /\ fileAtStart = <<generate_conf_file("sparse_6x6")>>
    /\ file = <<generate_conf_file("asymmetric_6x6")>>

\* the tokens of a loaded map are 6 rows of 6 tokens, each "0" or "1"
IsBinary6x6(map) ==
    LET toks == MapTokens(map) IN
    /\ Len(toks) = 6
    /\ \A r \in 1..6 :
          /\ Len(toks[r]) = 6
          /\ \A c \in 1..6 : toks[r][c] \in {<<"0">>, <<"1">>}

\* C4: the text generated for a catalog name evaluates to the catalog entry's
\* row and column patterns and to its map, a grid of 6 x 6 = 36 binary
\* tokens; for sparse_6x6 both patterns are ["1","1","0","0"].
C4_GeneratedMatchesCatalog ==
    (GivenKnownName /\ pc \in {"generated", "opened", "written", "idle"}) =>
        LET cfg == LoadConf(conf_content)
            var == VARIATIONS[argv[2]]
        IN /\ cfg.inp_pattern_row = var.pattern_row
           /\ cfg.inp_pattern_col = var.pattern_col
           /\ cfg.inp_map_string = var.map
           /\ MapTokens(cfg.inp_map_string) = MapTokens(var.map)
           /\ IsBinary6x6(cfg.inp_map_string)
           /\ (argv[2] = "sparse_6x6" =>
                 /\ cfg.inp_pattern_row = << <<"1">>, <<"1">>, <<"0">>, <<"0">> >>
                 /\ cfg.inp_pattern_col = << <<"1">>, <<"1">>, <<"0">>, <<"0">> >>)
           /\ (pc \in {"written", "idle"} => file = <<conf_content>>)

\* C4 witness: the switch to asymmetric_6x6 (different row and column
\* patterns) has completed and conf.py holds the generated text.
C4_Witness ==
    /\ Ended
    /\ Len(argv) >= 2
    /\ argv[2] = "asymmetric_6x6"
    /\ file = <<conf_content>>
    /\ LoadConf(file[1]).inp_pattern_row # LoadConf(file[1]).inp_pattern_col

(***************************************************************************)
(* Claims about key resolution (checked under ResolveSpec)                 *)
(***************************************************************************)
RECURSIVE WeightedBits(_, _)
\* the value of a key whose i-th character (from 1) weighs 2^(i-1): what
\* reading the reversed key as an unsigned binary integer gives
WeightedBits(bits, i) ==
    IF i > Len(bits) THEN 0
    ELSE (IF bits[i] = "1" THEN 2 ^ (i - 1) ELSE 0) + WeightedBits(bits, i + 1)

KeyValue(bits) == WeightedBits(bits, 1)

\* C5: resolving a key reverses it, reads it as an unsigned binary integer
\* idx and yields positions[idx] when idx < len(positions), absent otherwise;
\* with positions [(0,0),(0,1),(1,0),(1,1)] the key "01" resolves to index 2,
\* (row 1, col 0).
C5_ResolveReversedBinary ==
    resolved.called =>
        LET idx == KeyValue(key) IN
        /\ resolved.pos_idx = idx
        /\ IF idx < Len(positions)
           THEN resolved.found /\ resolved.pos = positions[idx + 1]
           ELSE ~resolved.found
        /\ ( ( /\ key = <<"0", "1">>
               /\ positions = << [row |-> 0, col |-> 0], [row |-> 0, col |-> 1],
                                 [row |-> 1, col |-> 0], [row |-> 1, col |-> 1] >> )
             => /\ resolved.pos_idx = 2
                /\ resolved.found
                /\ resolved.pos = [row |-> 1, col |-> 0] )

\* C5 witness: the key "01" has been resolved against the four positions of
\* a 2 x 2 grid and gave (row 1, col 0).
C5_Witness ==
    /\ resolved.called
    /\ key = <<"0", "1">>
    /\ Len(positions) = 4
    /\ resolved.found
    /\ resolved.pos = [row |-> 1, col |-> 0]

(***************************************************************************)
(* Claims about the reporting layer (checked under ReportSpec)             *)
(***************************************************************************)
\* the sum of the counts, by index
SumOfCounts ==
    LET S[i \in 0..Len(counts)] == IF i = 0 THEN 0 ELSE S[i - 1] + counts[i].value
    IN S[Len(counts)]

ItemIdx(i) == KeyValue(counts[i].key)

MappedSet == {i \in 1..Len(counts) : ItemIdx(i) < Len(positions)}

UnmappedSet == (1..Len(counts)) \ MappedSet

ItemPos(i) == positions[ItemIdx(i) + 1]

ItemLabel(i) == [kind |-> "pos", row |-> ItemPos(i).row, col |-> ItemPos(i).col]

\* a function of the figure ran and raised nothing
PanelOk(p) == "raised" \in DOMAIN p /\ p.raised = ""

FigOk == fig.called /\ fig.raised = ""

ReportOk == report.called /\ report.raised = ""

MinOf(S) == CHOOSE x \in S : \A y \in S : x <= y

\* the histogram shows one bar per key that resolves, none for the others
HistogramSkipsUnmapped ==
    (fig.called /\ PanelOk(fig.panels.histogram)) =>
        LET h == fig.panels.histogram IN
        /\ Len(h.position_labels) = Cardinality(MappedSet)
        /\ Len(h.count_values) = Cardinality(MappedSet)
        /\ \A j \in 1..Len(h.position_labels) :
              \E i \in MappedSet : /\ h.position_labels[j] = ItemLabel(i)
                                   /\ h.count_values[j] = counts[i].value

\* the number of wedges that stand for keys
KeyWedges == IF Len(counts) <= TopN THEN Len(counts) ELSE TopN

\* the pie chart shows no label for a key that does not resolve
PieSkipsUnmapped ==
    (fig.called /\ PanelOk(fig.panels.pie)) =>
        LET labels == fig.panels.pie.labels IN
        \A j \in 1..Len(labels) :
            \/ labels[j].kind = "Others"
            \/ \E i \in MappedSet : labels[j] = ItemLabel(i)

\* the pie chart labels the wedge of a key that does not resolve with the key
PieLabelsUnmappedWithKey ==
    (fig.called /\ PanelOk(fig.panels.pie)) =>
        LET labels == fig.panels.pie.labels IN
        /\ Len(labels) >= KeyWedges
        /\ \A j \in 1..KeyWedges :
              \E i \in 1..Len(counts) :
                  labels[j] = IF i \in MappedSet
                              THEN ItemLabel(i)
                              ELSE [kind |-> "key", key |-> counts[i].key]
        /\ (Len(counts) <= TopN =>
              \A i \in UnmappedSet :
                  \E j \in 1..Len(labels) :
                      labels[j] = [kind |-> "key", key |-> counts[i].key])

\* every cell of the heatmap holds the count of the key that resolves to it,
\* 0 if none does
HeatmapSkipsUnmapped ==
    (fig.called /\ PanelOk(fig.panels.heatmap)) =>
        LET grid == fig.panels.heatmap.grid IN
        \A cell \in DOMAIN grid :
            LET on == {i \in MappedSet : <<ItemPos(i).row, ItemPos(i).col>> = cell}
            IN grid[cell] = IF on = {} THEN 0 ELSE counts[MaxOf(on)].value

\* the keys that resolve to the selected position
Hits ==
    {i \in MappedSet : ItemPos(i).row = selected_row /\ ItemPos(i).col = selected_col}

ExpectedCount == IF Hits = {} THEN 0 ELSE counts[MinOf(Hits)].value

\* p is ExpectedCount / total shots as a percentage, 0 when there are no shots
IsExpectedPercent(p) ==
    IF SumOfCounts > 0
    THEN p.den > 0 /\ p.num * SumOfCounts = ExpectedCount * 100 * p.den
    ELSE p.num = 0

IsExpectedStats(st) ==
    /\ st.count = ExpectedCount
    /\ st.total = SumOfCounts
    /\ IsExpectedPercent(st.prob)

\* the statistics each reporter shows for the selected position, if any
MapStats == fig.panels.map.stats

MapStatsShown == fig.called /\ PanelOk(fig.panels.map) /\ MapStats.shown

ConsoleStatsShown == console.called /\ console.stats.shown

ReportStatsShown == ReportOk /\ report.selected.shown

\* a count shown for the selected position is the count of a key that resolves
SelectedSkipsUnmapped ==
    /\ (MapStatsShown /\ MapStats.count > 0) =>
          \E i \in MappedSet : counts[i].value = MapStats.count
    /\ (ConsoleStatsShown /\ console.stats.count > 0) =>
          \E i \in MappedSet : counts[i].value = console.stats.count
    /\ (ReportStatsShown /\ report.selected.count > 0) =>
          \E i \in MappedSet : counts[i].value = report.selected.count

\* the report lists a top result and top-5 lines only for keys that resolve
ReportSkipsUnmapped ==
    ReportOk =>
        /\ \A e \in report.top_5 :
              \E i \in MappedSet : e.pos = ItemLabel(i) /\ e.count = counts[i].value
        /\ (Len(counts) <= TopN => Cardinality(report.top_5) = Cardinality(MappedSet))
        /\ (report.top_result.shown =>
              \E i \in MappedSet : /\ report.top_result.pos = ItemLabel(i)
                                   /\ report.top_result.count = counts[i].value)

\* whatever keys fail to resolve, nothing raises unless the mapping is empty
\* or has no shots
NoRaiseOnUnmapped ==
    (counts # <<>> /\ SumOfCounts > 0) =>
        /\ (fig.called => fig.raised = "")
        /\ (console.called => console.raised = "")
        /\ (report.called => report.raised = "")

Degenerate == counts = <<>> \/ Len(counts) = 1 \/ SumOfCounts = 0

\* C7 (as stated): on degenerate inputs the statistics of the figure and of
\* the report are computed without raising, with 0% for a probability that
\* has no shots behind it.
C7_DegenerateGuarded ==
    Degenerate =>
        /\ (fig.called =>
              /\ fig.raised = ""
              /\ (SumOfCounts = 0 => fig.panels.metrics.top_result_prob.num = 0))
        /\ (report.called =>
              /\ report.raised = ""
              /\ (SumOfCounts = 0 => report.top_prob.num = 0))

ProbabilitiesRun == fig.probabilities.run

InputIndex(item) == CHOOSE j \in 1..Len(counts) : counts[j].key = item.key

\* C9: sorted(counts.items(), by count, descending)[:k] has min(k, |counts|)
\* items of the mapping, with non-increasing counts, the largest ones, and
\* items of equal count keep the order they have in the mapping.
C9_TopKStableDescending ==
    topk.called =>
        LET r == topk.items
            n == IF k <= Len(counts) THEN k ELSE Len(counts)
        IN /\ Len(r) = n
           /\ \A i \in 1..n : \E j \in 1..Len(counts) : counts[j] = r[i]
           /\ \A i \in 1..(n - 1) : r[i].value >= r[i + 1].value
           /\ \A i, j \in 1..n :
                 (i < j /\ r[i].value = r[j].value) => InputIndex(r[i]) < InputIndex(r[j])
           /\ \A j \in 1..Len(counts) :
                 (\A i \in 1..n : r[i] # counts[j]) =>
                     /\ n = k
                     /\ counts[j].value <= r[n].value
                     /\ (counts[j].value = r[n].value => InputIndex(r[n]) < j)

\* C9 witness: a top-3 of a mapping with more than three keys was taken, two
\* of the kept items tie, and an item tying with the last kept one is left out.
C9_Witness ==
    /\ topk.called
    /\ k = Top3
    /\ Len(counts) > Top3
    /\ topk.items[1].value > topk.items[2].value
    /\ topk.items[2].value = topk.items[3].value
    /\ \E j \in 1..Len(counts) :
          /\ counts[j].value = topk.items[3].value
          /\ \A i \in 1..3 : topk.items[i] # counts[j]

(***************************************************************************)
(* Claims about entropy and certainty (checked under ReportSpec)           *)
(***************************************************************************)
\* the keys with a non-zero count
NonZeroKeys == {i \in 1..Len(counts) : counts[i].value > 0}

\* the metrics panel computed its numbers
MetricsRun == fig.called /\ PanelOk(fig.panels.metrics)

\* C11: wherever the entropy of the counts mapping is computed (metrics panel
\* and summary report), it is 0 if and only if exactly one key has a
\* non-zero count.
C11_EntropyZeroIffOneKey ==
    /\ MetricsRun =>
          (LogIsZero(fig.panels.metrics.entropy) <=> Cardinality(NonZeroKeys) = 1)
    /\ ReportOk =>
          (LogIsZero(report.entropy) <=> Cardinality(NonZeroKeys) = 1)

\* C11 witness: the panel and the report computed entropy 0 for a mapping of
\* two keys of which one has no shots.
C11_Witness ==
    /\ MetricsRun
    /\ ReportOk
    /\ Len(counts) = 2
    /\ Cardinality(NonZeroKeys) = 1
    /\ LogIsZero(fig.panels.metrics.entropy)
    /\ LogIsZero(report.entropy)

\* a certainty 100 - 100 * num / den is 100 when num = 0, 0 when num = den
CertaintyIs100(c) == LogIsZero(c.hundred_minus.num)

CertaintyIs0(c) == LogEq(c.hundred_minus.num, c.hundred_minus.den)

\* two or more keys, all with the same positive count
UniformCounts ==
    /\ Len(counts) >= 2
    /\ counts[1].value > 0
    /\ \A i \in 1..Len(counts) : counts[i].value = counts[1].value

TokenCount == Len(MapClean(inp_map_string))

\* the token count is an exact multiple of GRID_WIDTH x BYTE_SIZE
WellFormedMap == TokenCount % (GRID_WIDTH * BYTE_SIZE) = 0

\* the tokens of the cells drawn, row by row
PanelTokens ==
    Concat([i \in 1..Len(map_panel.panel.cells) |->
               Concat([j \in 1..Len(map_panel.panel.cells[i]) |->
                          map_panel.panel.cells[i][j].slice])])

ConsoleTokens ==
    Concat([i \in 1..Len(console.rows) |-> Concat(console.rows[i])])

\* C13: a map whose token count is no exact multiple of GRID_WIDTH x
\* BYTE_SIZE is rejected by the map panel and by the console map with a
\* failure and nothing is drawn; for a well-formed map the height is the
\* token count over GRID_WIDTH x BYTE_SIZE and every token is in exactly one
\* cell.
C13_MalformedMapRejected ==
    /\ (map_panel.called /\ ~WellFormedMap) =>
          /\ map_panel.panel.raised # ""
          /\ map_panel.panel.cells = <<>>
    /\ (console.called /\ ~WellFormedMap) =>
          /\ console.raised # ""
          /\ console.rows = <<>>
    /\ (map_panel.called /\ WellFormedMap) =>
          /\ map_panel.panel.GRID_HEIGHT * GRID_WIDTH * BYTE_SIZE = TokenCount
          /\ PanelTokens = MapClean(inp_map_string)
    /\ (console.called /\ WellFormedMap) =>
          /\ Len(console.rows) * GRID_WIDTH * BYTE_SIZE = TokenCount
          /\ ConsoleTokens = MapClean(inp_map_string)

(***************************************************************************)
(* Claims about the selected position not being set (ReportSpec)           *)
(***************************************************************************)
\* the selected position is not set: a negative row or column
NotSet == selected_row < 0 \/ selected_col < 0

\* the console map marks something as selected, or prints the statistics
ConsoleShowsSelected ==
    \/ console.highlighted_columns # {}
    \/ console.highlighted_cells # {}
    \/ console.stats.shown

\* C14: with a negative row or column no reporter shows a highlight or
\* statistics of the selected position (heatmap, map panel, console map,
\* report); with both non-negative each of them shows them.
C14_NotSetShowsNothing ==
    /\ (FigOk /\ NotSet) =>
          /\ ~fig.panels.heatmap.highlight
          /\ ~fig.panels.map.highlight
          /\ ~fig.panels.map.stats.shown
    /\ (console.called /\ NotSet) => ~ConsoleShowsSelected
    /\ (ReportOk /\ NotSet) => ~report.selected.shown
    /\ (FigOk /\ ~NotSet) =>
          /\ fig.panels.heatmap.highlight
          /\ fig.panels.map.highlight
          /\ fig.panels.map.stats.shown
    /\ (console.called /\ ~NotSet /\ counts # <<>>) => console.stats.shown
    /\ (ReportOk /\ ~NotSet) => report.selected.shown

(***************************************************************************)
(* Claims about the configuration on disk (SwitcherSpec)                   *)
(***************************************************************************)
\* the cells of a configuration's map, row by row
GridOf(conf) == MapTokens(conf.inp_map_string)

\* the cells of column c at rows r, r+1, ..., r+n-1 (indices from 0)
ColumnRead(grid, c, r, n) == [i \in 1..n |-> grid[r + i][c + 1]]

\* the cells of row r at columns c, c+1, ..., c+n-1 (indices from 0)
RowRead(grid, r, c, n) == [i \in 1..n |-> grid[r + 1][c + i]]

\* C15: in the shipped configuration the cells of column 1 at rows 0 and 1
\* read the row pattern "1 0" and the cells of row 1 at columns 0 and 1 read
\* the column pattern "0 1", so position (1,1) matches both patterns.
C15_ShippedMatchesAtOneOne ==
    (file = <<ShippedConf>>) =>
        LET conf == LoadConf(file[1])
            grid == GridOf(conf)
        IN /\ conf.inp_pattern_row = <<<<"1">>, <<"0">>>>
           /\ conf.inp_pattern_col = <<<<"0">>, <<"1">>>>
           /\ ColumnRead(grid, 1, 0, 2) = conf.inp_pattern_row
           /\ RowRead(grid, 1, 0, 2) = conf.inp_pattern_col

(***************************************************************************)
(* Claims about the inputs of the reporters (ManySpec)                     *)
(***************************************************************************)
\* the pie chart of the figure was drawn
PieRun == fig.called /\ fig.probabilities.run /\ PanelOk(fig.panels.pie)

\* the pie chart got an 'Others' wedge
PieHasOthers ==
    \E j \in 1..Len(fig.panels.pie.labels) : fig.panels.pie.labels[j] = OthersLabel

\* C16: once the inputs are handed over, no call of a reporter (figure with
\* its six panels, map panel, console map, report) changes the counts
\* mapping, the positions, the map or the patterns; the probabilities handed
\* to the pie chart are the same after it added 'Others' to its own copy.
C16_InputsUnchanged ==
    [][ /\ (stage = "report") =>
              /\ counts' = counts
              /\ positions' = positions
              /\ inp_map_string' = inp_map_string
              /\ inp_pattern_row' = inp_pattern_row
              /\ inp_pattern_col' = inp_pattern_col
              /\ GRID_WIDTH' = GRID_WIDTH
              /\ BYTE_SIZE' = BYTE_SIZE
        /\ PieRun' => (fig.panels.pie.probabilities_after = fig.probabilities.items)'
      ]_vars

\* C16 witness: every reporter ran on a mapping of more than five keys, the
\* pie chart added 'Others', and the probabilities it was given are as before.
C16_Witness ==
    /\ FigOk
    /\ console.called
    /\ ReportOk
    /\ map_panel.called
    /\ Len(counts) > TopN
    /\ PieRun
    /\ PieHasOthers
    /\ fig.panels.pie.probabilities_after = fig.probabilities.items

(***************************************************************************)
(* Claims about the switcher run without a name (SwitcherSpec)             *)
(***************************************************************************)
\* a process was started without a variation name
GivenNoName == Len(argv) = 1

\* the output is the usage text followed by the catalog, one line per
\* variation in catalog order
UsageAndCatalog ==
    /\ Len(out) = 2 + Len(VariationNames)
    /\ out[1].line = "__doc__"
    /\ out[2].line = "Available variations:"
    /\ \A i \in 1..Len(VariationNames) :
          /\ out[2 + i].line = "variation"
          /\ out[2 + i].name = VariationNames[i]
    /\ {out[2 + i].name : i \in 1..Len(VariationNames)} = SevenNames

\* C17: a process started without a variation name never generates or opens
\* anything and leaves conf.py as it was; when it has ended it has printed
\* the usage text and the catalog and its exit status is 1.
C17_NoNameUsageExitOne ==
    GivenNoName =>
        /\ ~opened
        /\ conf_content = None
        /\ file = fileAtStart
        /\ pc \in {"main", "idle"}
        /\ (pc = "idle" => exit_status = 1 /\ UsageAndCatalog)

\* C17 witness: after a switch to a catalog variation, a process without a
\* name has ended with status 1 and conf.py still holds that variation.
C17_Witness ==
    /\ GivenNoName
    /\ Ended
    /\ exit_status = 1
    /\ UsageAndCatalog
    /\ lastOk = "dense_6x6"
    /\ file = <<generate_conf_file("dense_6x6")>>

(***************************************************************************)
(* Key resolution is injective, so no two keys meet on one position        *)
(***************************************************************************)
\* two distinct keys of one length decode to two distinct indices
InjectiveOn(keys) ==
    \A k1 \in keys, k2 \in keys :
        (Len(k1) = Len(k2) /\ k1 # k2) => PosIdx(k1) # PosIdx(k2)

NoDuplicatePosition ==
    \A i \in 1..Len(positions), j \in 1..Len(positions) :
        positions[i] = positions[j] => i = j

\* the items of counts whose key resolves to the coordinate (row, col)
ResolvesTo(row, col) ==
    {i \in 1..Len(counts) :
        /\ Mapped(counts[i].key, positions)
        /\ PosOf(counts[i].key, positions) = [row |-> row, col |-> col]}

RECURSIVE CountsOver(_)
\* the shots of the items of counts with index in S
CountsOver(S) ==
    IF S = {} THEN 0
    ELSE LET i == CHOOSE x \in S : TRUE
         IN counts[i].value + CountsOver(S \ {i})

RECURSIVE GridSum(_, _)
\* the sum of the grid's values over the cells in S
GridSum(grid, S) ==
    IF S = {} THEN 0
    ELSE LET c == CHOOSE x \in S : TRUE
         IN grid[c] + GridSum(grid, S \ {c})

HeatmapRun == fig.called /\ PanelOk(fig.panels.heatmap)

\* C18: two distinct keys of one length decode to two distinct indices (for
\* every key length, and so for the keys of counts); with positions free of
\* duplicates at most one key of counts resolves to any (row, col), so each
\* heatmap cell holds the count of the one key that resolves to it (0 when
\* none does), at most one key resolves to the selected position, and the
\* heatmap's counts sum to the total shots minus the shots of unmapped keys.
C18_ResolutionInjective ==
    /\ counts = <<>> => InjectiveOn(KeyChoices)
    /\ InjectiveOn(KeysOf(counts))
    /\ NoDuplicatePosition =>
          /\ \A i \in 1..Len(positions) :
                Cardinality(ResolvesTo(positions[i].row, positions[i].col)) <= 1
          /\ Cardinality(ResolvesTo(selected_row, selected_col)) <= 1
          /\ HeatmapRun =>
                LET grid == fig.panels.heatmap.grid IN
                /\ \A c \in DOMAIN grid :
                      grid[c] = CountsOver(ResolvesTo(c[1], c[2]))
                /\ GridSum(grid, DOMAIN grid)
                      = SumOfCounts - CountsOver(UnmappedSet)

\* two keys with shots land on two cells of the heatmap, one of them selected
C18_Witness ==
    /\ HeatmapRun
    /\ NoDuplicatePosition
    /\ Len(counts) = 2
    /\ UnmappedSet = {}
    /\ counts[1].value > 0 /\ counts[2].value > 0
    /\ Cardinality(ResolvesTo(selected_row, selected_col)) = 1
    /\ Cardinality(fig.panels.heatmap.texts) = 2

(***************************************************************************)
(* The qubit-reuse flag of every configuration conf.py can hold            *)
(***************************************************************************)
\* the configuration texts at hand: conf.py when it holds a whole text, and
\* the text generate_conf_file returned
ConfTexts ==
    (IF Len(file) = 1 THEN {file[1]} ELSE {})
        \cup (IF conf_content # None THEN {conf_content} ELSE {})

\* the catalog variations whose two patterns are equal
SymmetricNames ==
    {"sparse_6x6", "dense_6x6", "target_6x6", "checkerboard_6x6",
     "small_pattern_6x6", "medium_pattern_6x6"}

\* C19: in the shipped configuration and in every configuration the switcher
\* generates, REUSE_ROW_COL_QUBITS is true exactly when the row pattern
\* equals the column pattern: false for the shipped 4x4 configuration and
\* for asymmetric_6x6, true for the other six catalog variations.
C19_ReuseIffPatternsEqual ==
    \A text \in ConfTexts :
        LET cfg == LoadConf(text) IN
        /\ cfg.REUSE_ROW_COL_QUBITS <=> (cfg.inp_pattern_row = cfg.inp_pattern_col)
        /\ text = ShippedConf => ~cfg.REUSE_ROW_COL_QUBITS
        /\ text # ShippedConf =>
              /\ text.variation \in DOMAIN VARIATIONS
              /\ cfg.REUSE_ROW_COL_QUBITS
                    <=> (VARIATIONS[text.variation].pattern_row
                            = VARIATIONS[text.variation].pattern_col)
              /\ cfg.REUSE_ROW_COL_QUBITS <=> text.variation \in SymmetricNames
              /\ ~cfg.REUSE_ROW_COL_QUBITS <=> text.variation = "asymmetric_6x6"

\* conf.py holds the text generated for checkerboard_6x6, whose flag is true,
\* after a run that left the shipped text behind
C19_Witness ==
    /\ Ended /\ exit_status = 0
    /\ fileAtStart # <<ShippedConf>>
    /\ file = <<generate_conf_file("checkerboard_6x6")>>
    /\ LoadConf(file[1]).REUSE_ROW_COL_QUBITS
    /\ ~LoadConf(ShippedConf).REUSE_ROW_COL_QUBITS

====
